---- MODULE Spec2Model ----
(***************************************************************************)
(* Model of dataset.py: the Dataset factory and the three catalog builders *)
(* (CommonVoiceDataset, LibriSpeechDataset, CustomDataset) running over a  *)
(* corpus root held as a map from path to file.                            *)
(*                                                                         *)
(* A string is a sequence of one-character strings, so that replace,       *)
(* endswith, split, lower and os.path.join are computed as Python computes *)
(* them.                                                                   *)
(***************************************************************************)
EXTENDS Integers, Sequences, FiniteSets, TLC

VARIABLES
    files,          \* the file system: path -> file (text, csv or audio)
    dirOrder,       \* the order in which the file system lists a directory
    dataset_type,   \* argument of Dataset.create
    pc,             \* position of the program
    err,            \* the exception that ended the call, <<>> when none
    _data,          \* the catalog of the dataset under construction
    label,          \* __str__ of the class create() chose, "" when none
    reader,         \* rows the csv.DictReader has still to yield
    speakers,       \* speaker ids os.listdir(root) has still to yield
    speaker_id,
    chapters,       \* chapter ids os.listdir(speaker_dir) has still to yield
    chapter_id,
    listing,        \* names os.listdir(chapter_dir) has still to yield
    transcripts,    \* the chapter's mapping utterance-id -> transcript
    run,            \* 1: first construction over the root, 2: second
    first,          \* the catalog the first construction returned
    files0,         \* the file system when the current construction began
    calls,          \* converter/writer invocations of the current construction
    scanned,        \* TRUE once the current call opened or listed something
    ret             \* outcome of the last get(index)

vars == <<files, dirOrder, dataset_type, pc, err, _data, label, reader,
          speakers, speaker_id, chapters, chapter_id, listing, transcripts,
          run, first, files0, calls, scanned, ret>>

-----------------------------------------------------------------------------
(* Bounds of the model *)

\* rows of a metadata CSV
MaxRows == 2
\* get(index) is tried for every index in -MaxIndex .. MaxIndex
MaxIndex == 3

\* samplerate, bitdepth and n_channels of transformer.convert
SampleRate == 16000
BitDepth == 16
NChannels == 1

-----------------------------------------------------------------------------
(* Strings *)

\* the characters of the model, in ASCII order
Chars == <<"\n", " ", "-", ".", "/", "0", "1", "2", "3",
           "E", "F", "H", "N", "R", "X", "Y", "Z",
           "a", "b", "c", "d", "e", "f", "g", "h", "i", "l", "m", "n", "o",
           "p", "r", "s", "t", "v", "w", "x">>

CharCode(c) == CHOOSE k \in 1..Len(Chars) : Chars[k] = c

UpperCase == <<"E", "F", "H", "N", "R", "X", "Y", "Z">>
LowerCase == <<"e", "f", "h", "n", "r", "x", "y", "z">>

\* str.lower() of one character
LowerChar(c) ==
    IF \E k \in 1..Len(UpperCase) : UpperCase[k] = c
    THEN LowerCase[CHOOSE k \in 1..Len(UpperCase) : UpperCase[k] = c]
    ELSE c

\* str.lower()
Lower(s) == [k \in 1..Len(s) |-> LowerChar(s[k])]

StartsWith(s, p) == Len(s) >= Len(p) /\ SubSeq(s, 1, Len(p)) = p

\* str.endswith(suffix)
EndsWith(s, suffix) ==
    Len(s) >= Len(suffix) /\ SubSeq(s, Len(s) - Len(suffix) + 1, Len(s)) = suffix

\* str.replace(old, new): every non-overlapping occurrence, left to right
RECURSIVE Replace(_, _, _)
Replace(s, old, new) ==
    IF Len(s) < Len(old) THEN s
    ELSE IF StartsWith(s, old)
         THEN new \o Replace(SubSeq(s, Len(old) + 1, Len(s)), old, new)
         ELSE <<Head(s)>> \o Replace(Tail(s), old, new)

\* position of the first occurrence of character c in s, 0 when none
FirstIndex(s, c) ==
    IF \E k \in 1..Len(s) : s[k] = c
    THEN CHOOSE k \in 1..Len(s) : s[k] = c /\ \A j \in 1..(k-1) : s[j] # c
    ELSE 0

\* str.split(sep, maxsplit=1): a list of one or two strings
SplitFirst(s, sep) ==
    LET k == FirstIndex(s, sep)
    IN  IF k = 0 THEN <<s>>
        ELSE <<SubSeq(s, 1, k - 1), SubSeq(s, k + 1, Len(s))>>

\* file.readlines(): the lines of a text, each keeping its line terminator
RECURSIVE ReadLines(_)
ReadLines(text) ==
    IF text = <<>> THEN <<>>
    ELSE LET k == FirstIndex(text, "\n")
         IN  IF k = 0 THEN <<text>>
             ELSE <<SubSeq(text, 1, k)>> \o ReadLines(SubSeq(text, k + 1, Len(text)))

Digits == <<"0", "1", "2", "3">>
IsDigit(c) == \E k \in 1..Len(Digits) : Digits[k] = c
DigitValue(c) == (CHOOSE k \in 1..Len(Digits) : Digits[k] = c) - 1

\* int(s) raises ValueError unless s is a decimal numeral
IsInt(s) == Len(s) > 0 /\ \A k \in 1..Len(s) : IsDigit(s[k])

\* int(s)
RECURSIVE ParseInt(_)
ParseInt(s) ==
    IF Len(s) = 0 THEN 0
    ELSE 10 * ParseInt(SubSeq(s, 1, Len(s) - 1)) + DigitValue(s[Len(s)])

\* os.path.join(a, b)
Join(a, b) ==
    IF StartsWith(b, <<"/">>) THEN b
    ELSE IF a = <<>> \/ EndsWith(a, <<"/">>) THEN a \o b
    ELSE a \o <<"/">> \o b

Join3(a, b, c) == Join(Join(a, b), c)

\* lexicographic order of strings by character code
RECURSIVE StrLess(_, _)
StrLess(s, t) ==
    IF t = <<>> THEN FALSE
    ELSE IF s = <<>> THEN TRUE
    ELSE IF Head(s) = Head(t) THEN StrLess(Tail(s), Tail(t))
    ELSE CharCode(Head(s)) < CharCode(Head(t))

-----------------------------------------------------------------------------
(* The file system *)

TextFile(t) == [kind |-> "text", text |-> t]
CsvFile(rows) == [kind |-> "csv", rows |-> rows]
AudioFile(rate, channels, bits) ==
    [kind |-> "audio", rate |-> rate, channels |-> channels, bits |-> bits]

\* a directory exists where some file lies below it
IsDir(fs, d) == \E q \in DOMAIN fs : StartsWith(q, d \o <<"/">>)

\* os.path.isdir(p) in place of os.path.exists(p)
ExistsAsDir(fs, p) == IsDir(fs, p)

\* os.path.exists(p)
Exists(fs, p) == p \in DOMAIN fs \/ IsDir(fs, p)

\* the name of the entry of directory d that path q lies in or is
EntryOf(q, d) ==
    LET rest == SubSeq(q, Len(d) + 2, Len(q))
        k == FirstIndex(rest, "/")
    IN  IF k = 0 THEN rest ELSE SubSeq(rest, 1, k - 1)

Entries(fs, d) ==
    {EntryOf(q, d) : q \in {x \in DOMAIN fs : StartsWith(x, d \o <<"/">>)}}

\* whether the file system lists name s before name t
Before(order, s, t) == IF order = "asc" THEN StrLess(s, t) ELSE StrLess(t, s)

RECURSIVE InOrder(_, _)
InOrder(order, names) ==
    IF names = {} THEN <<>>
    ELSE LET n == CHOOSE x \in names : \A y \in names \ {x} : Before(order, x, y)
         IN  <<n>> \o InOrder(order, names \ {n})

\* os.listdir(d): the listing order is the file system's own; a directory
\* keeps the relative order of its entries when entries are added
ListDir(fs, order, d) == InOrder(order, Entries(fs, d))

\* the file system with file f written at path p
WriteFile(fs, p, f) == [q \in DOMAIN fs \cup {p} |-> IF q = p THEN f ELSE fs[q]]

-----------------------------------------------------------------------------
(* Corpus roots the program is run over *)

Root == <<"r">>

DotMp3 == <<".", "m", "p", "3">>
DotWav == <<".", "w", "a", "v">>
DotFlac == <<".", "f", "l", "a", "c">>
TransTxt == <<".", "t", "r", "a", "n", "s", ".", "t", "x", "t">>
CvCsv == <<"c", "v", "-", "v", "a", "l", "i", "d", "-", "t", "e", "s", "t", ".", "c", "s", "v">>
AnnotationsCsv == <<"a", "n", "n", "o", "t", "a", "t", "i", "o", "n", "s", ".", "c", "s", "v">>
Original == <<"o", "r", "i", "g", "i", "n", "a", "l">>
EN == <<"E", "N">>
FR == <<"F", "R">>

\* source audio: the target format, or 44.1 kHz stereo 24-bit
SourceFormats == {AudioFile(16000, 1, 16), AudioFile(44100, 2, 24)}

\* sequences over S of length at most n
RECURSIVE SeqsUpTo(_, _)
SeqsUpTo(S, n) ==
    IF n = 0 THEN {<<>>}
    ELSE LET shorter == SeqsUpTo(S, n - 1)
         IN  shorter \cup {Append(s, x) : s \in {t \in shorter : Len(t) = n - 1}, x \in S}

\* a function from the pairs of a set of <<path, file>> pairs with distinct paths
FsOf(pairs) == [p \in {x[1] : x \in pairs} |-> (CHOOSE x \in pairs : x[1] = p)[2]]

AMp3 == <<"a">> \o DotMp3
AWav == <<"a">> \o DotWav
BOgg == <<"b", ".", "o", "g", "g">>
BTxt == <<"b", ".", "t", "x", "t">>
AFlac == <<"a">> \o DotFlac
BFlac == <<"b">> \o DotFlac

\* a row that passes the gate, one row for each way of failing it, a row
\* whose filename is no .mp3 name, and a row whose votes are no numbers
CVRow1(filename, text, up_votes, down_votes) ==
    [filename |-> filename, text |-> text, up_votes |-> up_votes, down_votes |-> down_votes]

CVRows ==
    {CVRow1(AMp3, <<"H", "i", " ", "X">>, <<"2">>, <<"0">>),
     CVRow1(AMp3, <<"H", "i", " ", "X">>, <<"1">>, <<"0">>),
     CVRow1(AMp3, <<"H", "i", " ", "X">>, <<"2">>, <<"1">>),
     CVRow1(AMp3, <<>>, <<"2">>, <<"0">>),
     CVRow1(BOgg, <<"H", "i", " ", "X">>, <<"3">>, <<"0">>),
     CVRow1(AMp3, <<"x">>, <<"x">>, <<"0">>)}

CVRoots ==
    {FsOf({<<Join(Root, CvCsv), CsvFile(rows)>>, <<Join(Root, AMp3), src>>} \cup extra) :
        rows \in SeqsUpTo(CVRows, MaxRows),
        src \in SourceFormats,
        extra \in SUBSET {<<Join(Root, AWav), AudioFile(8000, 1, 8)>>,
                          <<Join(Root, BOgg), AudioFile(44100, 2, 24)>>}}

\* a row that passes the filter, one row for each way of failing it, and a
\* row whose file is no .wav name
CustomRow1(file, text, language) == [file |-> file, text |-> text, language |-> language]

CustomRows ==
    {CustomRow1(AWav, <<"h", "i">>, EN),
     CustomRow1(AWav, <<"h", "i">>, FR),
     CustomRow1(AWav, <<>>, EN),
     CustomRow1(BTxt, <<"h", "i">>, EN)}

CustomRoots ==
    {FsOf({<<Join(Root, AnnotationsCsv), CsvFile(rows)>>,
           <<Join3(Root, Original, AWav), src>>} \cup extra) :
        rows \in SeqsUpTo(CustomRows, MaxRows),
        src \in SourceFormats,
        extra \in SUBSET {<<Join(Root, AWav), AudioFile(8000, 1, 8)>>,
                          <<Join3(Root, Original, BTxt), AudioFile(44100, 2, 24)>>}}

\* contents of a <speaker>-<chapter>.trans.txt
TransTexts ==
    {<<"a", " ", "X", " ", "Y", "\n">>,
     <<"a", " ", "X", " ", "Y", "\n", "b", " ", "Z">>,
     <<"a", "\n">>}

\* the files of one chapter directory
ChapterFiles(speaker, chapter) ==
    LET dir == Join3(Root, speaker, chapter)
    IN  {{<<Join(dir, speaker \o <<"-">> \o chapter \o TransTxt), TextFile(t)>>}
            \cup {<<Join(dir, f), src>> : f \in flacs} \cup wav :
            t \in TransTexts,
            flacs \in {{}, {AFlac}, {AFlac, BFlac}},
            src \in SourceFormats,
            wav \in SUBSET {<<Join(dir, AWav), AudioFile(8000, 1, 8)>>}}

LibriRoots ==
    {FsOf(c) : c \in ChapterFiles(<<"1">>, <<"1">>)}
    \cup {FsOf(c \cup d) : c \in ChapterFiles(<<"1">>, <<"1">>), d \in ChapterFiles(<<"1">>, <<"2">>)}
    \cup {FsOf(c \cup d) : c \in ChapterFiles(<<"1">>, <<"1">>), d \in ChapterFiles(<<"2">>, <<"1">>)}

Roots == CVRoots \cup CustomRoots \cup LibriRoots

DatasetTypes == {"commonvoice", "librispeech", "custom", "common voice"}

NoEntry == <<>>
NoRet == [index |-> 0, exc |-> "", value |-> NoEntry]

Init ==
    /\ files \in Roots
    /\ dirOrder \in {"asc", "desc"}
    /\ dataset_type = ""
    /\ pc = "start"
    /\ err = <<>>
    /\ _data = <<>>
    /\ label = ""
    /\ reader = <<>>
    /\ speakers = <<>>
    /\ speaker_id = <<>>
    /\ chapters = <<>>
    /\ chapter_id = <<>>
    /\ listing = <<>>
    /\ transcripts = <<>>
    /\ run = 1
    /\ first = <<>>
    /\ files0 = files
    /\ calls = <<>>
    /\ scanned = FALSE
    /\ ret = NoRet

-----------------------------------------------------------------------------
(* The external collaborators *)

\* sox.Transformer.build(input, output) raises unless the input is an audio
\* file other than the output
SoxCanBuild(fs, input, output) ==
    input \in DOMAIN fs /\ fs[input].kind = "audio" /\ input # output

\* a converter that also rewrites its input in the target format
SoxBuildInPlace(fs, input, output) ==
    WriteFile(WriteFile(fs, input, AudioFile(SampleRate, NChannels, BitDepth)),
              output, AudioFile(SampleRate, NChannels, BitDepth))

\* transformer.convert(samplerate=16000, bitdepth=16, n_channels=1), then
\* transformer.build(input, output)
SoxBuild(fs, input, output) ==
    WriteFile(fs, output, AudioFile(SampleRate, NChannels, BitDepth))

\* pcm, sample_rate = soundfile.read(flac_path);
\* soundfile.write(wav_path, pcm, sample_rate): the samples and the rate of
\* the source, in the writer's default 16-bit subtype
SoundfileCopy(fs, flac_path, wav_path) ==
    WriteFile(fs, wav_path, AudioFile(fs[flac_path].rate, fs[flac_path].channels, 16))

Call(fn, src, dst) == [fn |-> fn, src |-> src, dst |-> dst]

-----------------------------------------------------------------------------
(* Dataset.create *)

\* a factory whose last branch takes every remaining type
ClassOfElseCustom(t) ==
    IF t = "commonvoice" THEN "CommonVoiceDataset"
    ELSE IF t = "librispeech" THEN "LibriSpeechDataset"
    ELSE "CustomDataset"

\* the class create() constructs for a dataset type, "" when it raises
ClassOf(t) ==
    IF t = "commonvoice" THEN "CommonVoiceDataset"
    ELSE IF t = "librispeech" THEN "LibriSpeechDataset"
    ELSE IF t = "custom" THEN "CustomDataset"
    ELSE ""

\* __str__ of each class
StrOf(class) ==
    IF class = "CommonVoiceDataset" THEN "Common Voice Dataset"
    ELSE IF class = "LibriSpeechDataset" THEN "LibriSpeech Dataset"
    ELSE IF class = "CustomDataset" THEN "Custom Dataset"
    ELSE ""

\* where the constructor of a class begins
EntryPc(class) ==
    IF class = "CommonVoiceDataset" THEN "cv_open"
    ELSE IF class = "LibriSpeechDataset" THEN "ls_root"
    ELSE "cu_open"

Raise(e) == /\ pc' = "error"
            /\ err' = e

LoopVars == <<reader, speakers, speaker_id, chapters, chapter_id, listing, transcripts>>

Create ==
    /\ pc = "start"
    /\ \E t \in DatasetTypes :
        /\ dataset_type' = t
        /\ IF ClassOf(t) # ""
           THEN /\ pc' = EntryPc(ClassOf(t))
                /\ label' = StrOf(ClassOf(t))
                /\ err' = err
           ELSE /\ Raise(<<"ValueError", "cannot create Dataset of type", t>>)
                /\ label' = label
    /\ UNCHANGED <<files, dirOrder, _data, LoopVars, run, first, files0, calls, scanned, ret>>

-----------------------------------------------------------------------------
(* CommonVoiceDataset.__init__ *)

\* a gate that forgets the empty-text check
CVAcceptsAnyText(up_votes, down_votes, text) ==
    ~(up_votes < 2 \/ down_votes > 0)

\* the quality gate: rows it rejects are skipped
CVAccepts(up_votes, down_votes, text) ==
    ~(up_votes < 2 \/ down_votes > 0 \/ Len(text) = 0)

CVMp3Path(row) == Join(Root, row.filename)

CVWavPath(row) == Replace(CVMp3Path(row), DotMp3, DotWav)

CVOpen ==
    /\ pc = "cv_open"
    /\ LET metadata_path == Join(Root, CvCsv)
       IN  IF metadata_path \in DOMAIN files /\ files[metadata_path].kind = "csv"
           THEN /\ reader' = files[metadata_path].rows
                /\ pc' = "cv_loop"
                /\ err' = err
           ELSE /\ Raise(<<"IOError">>)
                /\ reader' = reader
    /\ scanned' = TRUE
    /\ UNCHANGED <<files, dirOrder, dataset_type, _data, label, speakers, speaker_id,
                   chapters, chapter_id, listing, transcripts, run, first, files0, calls, ret>>

CVRow ==
    /\ pc = "cv_loop"
    /\ reader # <<>>
    /\ LET row == Head(reader)
           text == Lower(row.text)
           wav_path == CVWavPath(row)
       IN  IF ~IsInt(row.up_votes) \/ ~IsInt(row.down_votes)
           THEN /\ Raise(<<"ValueError">>)
                /\ UNCHANGED <<files, _data, reader, calls>>
           ELSE IF ~CVAccepts(ParseInt(row.up_votes), ParseInt(row.down_votes), text)
           THEN /\ reader' = Tail(reader)
                /\ UNCHANGED <<files, _data, calls, pc, err>>
           ELSE IF Exists(files, wav_path)
           THEN /\ _data' = Append(_data, <<wav_path, text>>)
                /\ reader' = Tail(reader)
                /\ UNCHANGED <<files, calls, pc, err>>
           ELSE IF SoxCanBuild(files, CVMp3Path(row), wav_path)
           THEN /\ files' = SoxBuild(files, CVMp3Path(row), wav_path)
                /\ calls' = Append(calls, Call("sox", CVMp3Path(row), wav_path))
                /\ _data' = Append(_data, <<wav_path, text>>)
                /\ reader' = Tail(reader)
                /\ UNCHANGED <<pc, err>>
           ELSE /\ calls' = Append(calls, Call("sox", CVMp3Path(row), wav_path))
                /\ Raise(<<"SoxError">>)
                /\ UNCHANGED <<files, _data, reader>>
    /\ UNCHANGED <<dirOrder, dataset_type, label, speakers, speaker_id, chapters,
                   chapter_id, listing, transcripts, run, first, files0, scanned, ret>>

CVEnd ==
    /\ pc = "cv_loop"
    /\ reader = <<>>
    /\ pc' = "done"
    /\ UNCHANGED <<files, dirOrder, dataset_type, err, _data, label, LoopVars,
                   run, first, files0, calls, scanned, ret>>

-----------------------------------------------------------------------------
(* CustomDataset.__init__ *)

\* the filter: d['text'] and d['language'] == "EN"
CustomAccepts(d) == Len(d.text) # 0 /\ d.language = EN

\* what one accepted row adds to the catalog: self._data.append((wav_path,
\* d['text'])), then self._data += [row]
CustomEntries(d) ==
    <<<<Join(Root, d.file), d.text>>, <<Join(Root, d.file), d.text>>>>

CustomOpen ==
    /\ pc = "cu_open"
    /\ LET metadata_path == Join(Root, AnnotationsCsv)
       IN  IF metadata_path \in DOMAIN files /\ files[metadata_path].kind = "csv"
           THEN /\ reader' = files[metadata_path].rows
                /\ pc' = "cu_loop"
                /\ err' = err
           ELSE /\ Raise(<<"IOError">>)
                /\ reader' = reader
    /\ scanned' = TRUE
    /\ UNCHANGED <<files, dirOrder, dataset_type, _data, label, speakers, speaker_id,
                   chapters, chapter_id, listing, transcripts, run, first, files0, calls, ret>>

CustomRow ==
    /\ pc = "cu_loop"
    /\ reader # <<>>
    /\ LET d == Head(reader)
           orig_path == Join3(Root, Original, d.file)
           wav_path == Join(Root, d.file)
       IN  IF ~CustomAccepts(d)
           THEN /\ reader' = Tail(reader)
                /\ UNCHANGED <<files, _data, calls, pc, err>>
           ELSE IF Exists(files, wav_path)
           THEN /\ _data' = _data \o CustomEntries(d)
                /\ reader' = Tail(reader)
                /\ UNCHANGED <<files, calls, pc, err>>
           ELSE IF SoxCanBuild(files, orig_path, wav_path)
           THEN /\ files' = SoxBuild(files, orig_path, wav_path)
                /\ calls' = Append(calls, Call("sox", orig_path, wav_path))
                /\ _data' = _data \o CustomEntries(d)
                /\ reader' = Tail(reader)
                /\ UNCHANGED <<pc, err>>
           ELSE /\ calls' = Append(calls, Call("sox", orig_path, wav_path))
                /\ Raise(<<"SoxError">>)
                /\ UNCHANGED <<files, _data, reader>>
    /\ UNCHANGED <<dirOrder, dataset_type, label, speakers, speaker_id, chapters,
                   chapter_id, listing, transcripts, run, first, files0, scanned, ret>>

CustomEnd ==
    /\ pc = "cu_loop"
    /\ reader = <<>>
    /\ pc' = "done"
    /\ UNCHANGED <<files, dirOrder, dataset_type, err, _data, label, LoopVars,
                   run, first, files0, calls, scanned, ret>>

-----------------------------------------------------------------------------
(* LibriSpeechDataset.__init__ *)

SpeakerDir == Join(Root, speaker_id)
ChapterDir == Join(SpeakerDir, chapter_id)

\* '%s-%s.trans.txt' % (speaker_id, chapter_id)
TranscriptName(speaker, chapter) == speaker \o <<"-">> \o chapter \o TransTxt

\* [tuple(x.split(' ', maxsplit=1)) for x in f.readlines()]
TranscriptPairs(text) ==
    LET lines == ReadLines(text)
    IN  [k \in 1..Len(lines) |-> SplitFirst(lines[k], " ")]

\* dict(pairs) raises ValueError unless every element has length 2
IsDictInput(pairs) == \A k \in 1..Len(pairs) : Len(pairs[k]) = 2

\* dict(pairs): the last pair of a key gives its value
Dict(pairs) ==
    [key \in {pairs[k][1] : k \in 1..Len(pairs)} |->
        pairs[CHOOSE k \in 1..Len(pairs) :
                /\ pairs[k][1] = key
                /\ \A j \in (k+1)..Len(pairs) : pairs[j][1] # key][2]]

WavFile(flac_file) == Replace(flac_file, DotFlac, DotWav)

\* wav_file.replace('.wav', '')
TranscriptKey(wav_file) == Replace(wav_file, DotWav, <<>>)

\* transcripts.get(key, ''): a missing key gives the empty transcript
LookupOrEmpty(d, key) ==
    [found |-> TRUE, value |-> IF key \in DOMAIN d THEN d[key] ELSE <<>>]

\* transcripts[key]: raises KeyError when the key is missing
Lookup(d, key) ==
    IF key \in DOMAIN d THEN [found |-> TRUE, value |-> d[key]]
    ELSE [found |-> FALSE, value |-> <<>>]

LSRoot ==
    /\ pc = "ls_root"
    /\ IF IsDir(files, Root)
       THEN /\ speakers' = ListDir(files, dirOrder, Root)
            /\ pc' = "ls_speakers"
            /\ err' = err
       ELSE /\ Raise(<<"IOError">>)
            /\ speakers' = speakers
    /\ scanned' = TRUE
    /\ UNCHANGED <<files, dirOrder, dataset_type, _data, label, reader, speaker_id,
                   chapters, chapter_id, listing, transcripts, run, first, files0, calls, ret>>

LSSpeaker ==
    /\ pc = "ls_speakers"
    /\ IF speakers = <<>>
       THEN /\ pc' = "done"
            /\ UNCHANGED <<speakers, speaker_id, chapters, err>>
       ELSE LET speaker_dir == Join(Root, Head(speakers))
            IN  /\ speaker_id' = Head(speakers)
                /\ speakers' = Tail(speakers)
                /\ IF IsDir(files, speaker_dir)
                   THEN /\ chapters' = ListDir(files, dirOrder, speaker_dir)
                        /\ pc' = "ls_chapters"
                        /\ err' = err
                   ELSE /\ Raise(<<"NotADirectoryError">>)
                        /\ chapters' = chapters
    /\ UNCHANGED <<files, dirOrder, dataset_type, _data, label, reader, chapter_id,
                   listing, transcripts, run, first, files0, calls, scanned, ret>>

LSChapter ==
    /\ pc = "ls_chapters"
    /\ IF chapters = <<>>
       THEN /\ pc' = "ls_speakers"
            /\ UNCHANGED <<chapters, chapter_id, transcripts, listing, err>>
       ELSE LET chapter_dir == Join(SpeakerDir, Head(chapters))
                transcript_path == Join(chapter_dir, TranscriptName(speaker_id, Head(chapters)))
            IN  /\ chapter_id' = Head(chapters)
                /\ chapters' = Tail(chapters)
                /\ IF ~(transcript_path \in DOMAIN files /\ files[transcript_path].kind = "text")
                   THEN /\ Raise(<<"IOError">>)
                        /\ UNCHANGED <<transcripts, listing>>
                   ELSE IF ~IsDictInput(TranscriptPairs(files[transcript_path].text))
                   THEN /\ Raise(<<"ValueError">>)
                        /\ UNCHANGED <<transcripts, listing>>
                   ELSE /\ transcripts' = Dict(TranscriptPairs(files[transcript_path].text))
                        /\ listing' = ListDir(files, dirOrder, chapter_dir)
                        /\ pc' = "ls_files"
                        /\ err' = err
    /\ UNCHANGED <<files, dirOrder, dataset_type, _data, label, reader, speakers,
                   speaker_id, run, first, files0, calls, scanned, ret>>

LSFile ==
    /\ pc = "ls_files"
    /\ IF listing = <<>>
       THEN /\ pc' = "ls_chapters"
            /\ UNCHANGED <<files, _data, listing, calls, err>>
       ELSE LET flac_file == Head(listing)
                wav_file == WavFile(flac_file)
                wav_path == Join(ChapterDir, wav_file)
                flac_path == Join(ChapterDir, flac_file)
                absent == ~Exists(files, wav_path)
            IN  IF ~EndsWith(flac_file, DotFlac)
                THEN /\ listing' = Tail(listing)
                     /\ UNCHANGED <<files, _data, calls, pc, err>>
                ELSE /\ IF absent
                        THEN /\ files' = SoundfileCopy(files, flac_path, wav_path)
                             /\ calls' = Append(calls, Call("soundfile", flac_path, wav_path))
                        ELSE UNCHANGED <<files, calls>>
                     /\ IF Lookup(transcripts, TranscriptKey(wav_file)).found
                        THEN /\ _data' = Append(_data, <<wav_path, Lookup(transcripts, TranscriptKey(wav_file)).value>>)
                             /\ listing' = Tail(listing)
                             /\ UNCHANGED <<pc, err>>
                        ELSE /\ Raise(<<"KeyError">>)
                             /\ UNCHANGED <<_data, listing>>
    /\ UNCHANGED <<dirOrder, dataset_type, label, reader, speakers, speaker_id,
                   chapters, chapter_id, transcripts, run, first, files0, scanned, ret>>

-----------------------------------------------------------------------------
(* size() and get(index) of the three classes *)

size == Len(_data)

\* get(index) that rejects every negative index
GetItemNonNegative(data, index) ==
    IF 0 <= index /\ index < Len(data)
    THEN [index |-> index, exc |-> "", value |-> data[index + 1]]
    ELSE [index |-> index, exc |-> "IndexError", value |-> NoEntry]

\* self._data[index]: a Python list takes an index in -len .. len-1
GetItem(data, index) ==
    IF -Len(data) <= index /\ index < Len(data)
    THEN [index |-> index, exc |-> "", value |-> data[(index % Len(data)) + 1]]
    ELSE [index |-> index, exc |-> "IndexError", value |-> NoEntry]

Get ==
    /\ pc = "done"
    /\ \E index \in (0 - MaxIndex)..MaxIndex : ret' = GetItem(_data, index)
    /\ UNCHANGED <<files, dirOrder, dataset_type, pc, err, _data, label, LoopVars,
                   run, first, files0, calls, scanned>>

-----------------------------------------------------------------------------
(* A second construction of the same dataset over the root the first left *)

Reconstruct ==
    /\ pc = "done"
    /\ run = 1
    /\ run' = 2
    /\ first' = _data
    /\ _data' = <<>>
    /\ files0' = files
    /\ calls' = <<>>
    /\ scanned' = FALSE
    /\ ret' = NoRet
    /\ pc' = EntryPc(ClassOf(dataset_type))
    /\ reader' = <<>>
    /\ speakers' = <<>>
    /\ speaker_id' = <<>>
    /\ chapters' = <<>>
    /\ chapter_id' = <<>>
    /\ listing' = <<>>
    /\ transcripts' = <<>>
    /\ UNCHANGED <<files, dirOrder, dataset_type, err, label>>

Next ==
    \/ Create
    \/ CVOpen
    \/ CVRow
    \/ CVEnd
    \/ CustomOpen
    \/ CustomRow
    \/ CustomEnd
    \/ LSRoot
    \/ LSSpeaker
    \/ LSChapter
    \/ LSFile
    \/ Get
    \/ Reconstruct

Spec == Init /\ [][Next]_vars

-----------------------------------------------------------------------------
(* What the claims speak of *)

Entry(k) == _data[k]
PathOf(entry) == entry[1]
TextOf(entry) == entry[2]

\* position of the last occurrence of character c in s, 0 when none
LastIndex(s, c) ==
    IF \E k \in 1..Len(s) : s[k] = c
    THEN CHOOSE k \in 1..Len(s) : s[k] = c /\ \A j \in (k+1)..Len(s) : s[j] # c
    ELSE 0

Parent(p) == SubSeq(p, 1, LastIndex(p, "/") - 1)
BaseName(p) == SubSeq(p, LastIndex(p, "/") + 1, Len(p))

\* the text with one trailing line terminator removed
Stripped(t) == IF EndsWith(t, <<"\n">>) THEN SubSeq(t, 1, Len(t) - 1) ELSE t

\* the rows of a metadata CSV of the root
RowsOf(name) == files0[Join(Root, name)].rows

\* one entry per row that passes the Common Voice gate, in row order
RECURSIVE CVCatalog(_)
CVCatalog(rows) ==
    IF rows = <<>> THEN <<>>
    ELSE LET r == Head(rows)
             keep == /\ ParseInt(r.up_votes) >= 2
                     /\ ParseInt(r.down_votes) = 0
                     /\ r.text # <<>>
         IN  (IF keep
              THEN << <<Replace(Join(Root, r.filename), DotMp3, DotWav), Lower(r.text)>> >>
              ELSE <<>>) \o CVCatalog(Tail(rows))

\* one entry per row that passes the Custom filter, in row order
RECURSIVE CustomCatalog(_)
CustomCatalog(rows) ==
    IF rows = <<>> THEN <<>>
    ELSE LET r == Head(rows)
         IN  (IF r.language = EN /\ r.text # <<>>
              THEN << <<Join(Root, r.file), r.text>> >>
              ELSE <<>>) \o CustomCatalog(Tail(rows))

\* the .flac files of the root at the start of the construction
FlacPaths == {p \in DOMAIN files0 : EndsWith(p, DotFlac)}

\* <name>.flac -> <name>
Stem(name) == SubSeq(name, 1, Len(name) - Len(DotFlac))

WavSibling(p) == SubSeq(p, 1, Len(p) - Len(DotFlac)) \o DotWav

\* the lines of the transcript file of the directory of p
TransLines(p) ==
    ReadLines(files0[CHOOSE q \in DOMAIN files0 :
                        /\ files0[q].kind = "text"
                        /\ Parent(q) = Parent(p)].text)

\* the text after the first space of the line of utterance p, stripped
StrippedTranscript(p) ==
    LET lines == TransLines(p)
        id == Stem(BaseName(p))
        k == CHOOSE j \in 1..Len(lines) : StartsWith(lines[j], id \o <<" ">>)
    IN  Stripped(SubSeq(lines[k], Len(id) + 2, Len(lines[k])))

EntriesAt(path) == {k \in 1..Len(_data) : PathOf(Entry(k)) = path}

Done(type) == pc = "done" /\ dataset_type = type

\* C1 as stated: get(index) fails with an out-of-range error exactly when
\* index is outside [0, size()), negative indices included.
C1_Original ==
    ret # NoRet =>
        (ret.exc = "IndexError" <=> ~(0 <= ret.index /\ ret.index < size))

\* C1 amended: get(index) fails with an out-of-range error exactly when index
\* is outside [-size(), size()); for 0 <= index < size() it returns entry
\* index, and for -size() <= index < 0 it returns entry size() + index.
C1_Amended ==
    ret # NoRet =>
        /\ ret.exc = "IndexError" <=> ~((0 - size) <= ret.index /\ ret.index < size)
        /\ ret.exc = "" /\ ret.index >= 0 => ret.value = Entry(ret.index + 1)
        /\ ret.exc = "" /\ ret.index < 0 => ret.value = Entry(size + ret.index + 1)
        /\ ret.exc = "IndexError" => ret.value = NoEntry

C1_Witness == ret.exc = "" /\ ret.index < 0 /\ ret.value # NoEntry /\ size >= 2

\* C2: after CustomDataset construction every row with language "EN" and
\* non-empty text contributes exactly one entry (root/file, text), every other
\* row none, so size() is the number of accepted rows.
C2_OncePerRow ==
    Done("custom") => _data = CustomCatalog(RowsOf(AnnotationsCsv))

C5_ExistingWav ==
    pc = "done" =>
        \A k \in 1..Len(_data) :
            /\ PathOf(Entry(k)) \in DOMAIN files
            /\ files[PathOf(Entry(k))].kind = "audio"
            /\ StartsWith(PathOf(Entry(k)), Root \o <<"/">>)
            /\ EndsWith(PathOf(Entry(k)), DotWav)

\* C6: after LibriSpeechDataset construction every .flac file has exactly one
\* entry (WAV sibling path, transcript), the transcript being the text after
\* the first space of the file's line with the trailing newline stripped.
C6_StrippedTranscript ==
    Done("librispeech") =>
        \A p \in FlacPaths :
            /\ Cardinality(EntriesAt(WavSibling(p))) = 1
            /\ \A k \in EntriesAt(WavSibling(p)) : TextOf(Entry(k)) = StrippedTranscript(p)

\* C7: create() constructs the class of the dataset type, whose label is the
\* fixed string of that type; for any other type it fails with an
\* invalid-argument error naming the type, having scanned and converted nothing.
C7_Factory ==
    /\ pc \in {"cv_open", "cv_loop"} => dataset_type = "commonvoice"
    /\ pc \in {"ls_root", "ls_speakers", "ls_chapters", "ls_files"} => dataset_type = "librispeech"
    /\ pc \in {"cu_open", "cu_loop"} => dataset_type = "custom"
    /\ pc = "done" =>
          \/ dataset_type = "commonvoice" /\ label = "Common Voice Dataset"
          \/ dataset_type = "librispeech" /\ label = "LibriSpeech Dataset"
          \/ dataset_type = "custom" /\ label = "Custom Dataset"
    /\ dataset_type \notin {"", "commonvoice", "librispeech", "custom"} =>
          /\ pc = "error"
          /\ err[1] = "ValueError"
          /\ err[Len(err)] = dataset_type
          /\ ~scanned
          /\ calls = <<>>
          /\ files = files0
          /\ _data = <<>>
          /\ label = ""

C7_Witness ==
    /\ dataset_type = "common voice"
    /\ pc = "error"
    /\ err = <<"ValueError", "cannot create Dataset of type", "common voice">>

\* C8: every audio file written during a construction is a 16 kHz, mono,
\* 16-bit WAV whatever the format of its source.
C8_TargetFormat ==
    \A k \in 1..Len(calls) :
        calls[k].dst \in DOMAIN files \ DOMAIN files0 =>
            files[calls[k].dst] = AudioFile(SampleRate, NChannels, BitDepth)

CallTargets == {calls[k].dst : k \in 1..Len(calls)}

PathsOf(catalog) == {PathOf(catalog[k]) : k \in 1..Len(catalog)}

\* C9: a construction changes the root only by creating target files that
\* did not exist: nothing that existed is overwritten or removed, every new
\* file is the target of a conversion, a conversion is invoked only for an
\* absent target, and on completion the conversions invoked are exactly
\* those of the accepted rows (or .flac files) whose target was absent.
C9_Frame ==
    /\ \A p \in DOMAIN files0 : p \in DOMAIN files /\ files[p] = files0[p]
    /\ \A p \in DOMAIN files \ DOMAIN files0 : files[p].kind = "audio" /\ p \in CallTargets
    /\ \A k \in 1..Len(calls) :
          /\ calls[k].dst \notin DOMAIN files0
          /\ \A j \in 1..Len(calls) : j # k => calls[j].dst # calls[k].dst
    /\ Done("commonvoice") =>
          CallTargets = PathsOf(CVCatalog(RowsOf(CvCsv))) \ DOMAIN files0
    /\ Done("custom") =>
          CallTargets = PathsOf(CustomCatalog(RowsOf(AnnotationsCsv))) \ DOMAIN files0
    /\ Done("librispeech") =>
          CallTargets = {WavSibling(p) : p \in FlacPaths} \ DOMAIN files0

C9_Witness ==
    /\ Done("commonvoice")
    /\ run = 1
    /\ Len(RowsOf(CvCsv)) = 2
    /\ Len(calls) = 1
    /\ Len(_data) = 1
    /\ Join(Root, BOgg) \in DOMAIN files

\* whether the transcript file beside p has a line for utterance p
HasLine(p) ==
    \E j \in 1..Len(TransLines(p)) :
        StartsWith(TransLines(p)[j], Stem(BaseName(p)) \o <<" ">>)

\* C10: a LibriSpeech construction that meets a .flac file whose base name
\* is no key of the chapter's transcripts aborts with a lookup error at that
\* file and returns no dataset; a construction that completes has exactly
\* one entry per .flac file, each with a transcript line.
C10_AbortOrComplete ==
    dataset_type = "librispeech" =>
        /\ pc = "error" => ret = NoRet
        /\ pc = "error" /\ err = <<"KeyError">> =>
              /\ listing # <<>>
              /\ EndsWith(Head(listing), DotFlac)
              /\ ~HasLine(Join(ChapterDir, Head(listing)))
        /\ pc = "done" =>
              /\ Len(_data) = Cardinality(FlacPaths)
              /\ \A p \in FlacPaths :
                    HasLine(p) /\ Cardinality(EntriesAt(WavSibling(p))) = 1

C10_Witness ==
    /\ dataset_type = "librispeech"
    /\ pc = "error"
    /\ err = <<"KeyError">>
    /\ _data # <<>>
    /\ calls # <<>>

====
